---- MODULE Spec2Model ----
(***************************************************************************)
(* Model of verder-helpen-jwt: nested (signed-then-encrypted) tokens.      *)
(*   src/src/config.rs  key configuration -> signer/verifier/encrypter/    *)
(*                      decrypter handles                                  *)
(*   src/src/jwt.rs     sign_and_encrypt_auth_result /                     *)
(*                      decrypt_and_verify_auth_result                     *)
(*   src/src/jwe.rs     sign_and_encrypt_attributes /                      *)
(*                      decrypt_and_verify_attributes                      *)
(*   src/src/error.rs   Error::{Json, JWT, InvalidStructure}               *)
(* The josekit primitives the code calls are modelled symbolically: a      *)
(* signature names the key that made it, an envelope names the recipient   *)
(* key and which of its five compact segments are still the issued bytes.  *)
(***************************************************************************)
EXTENDS Integers, Sequences, FiniteSets, TLC

VARIABLES clock, token, origin, call, resolved

vars == <<clock, token, origin, call, resolved>>

\* ---------------------------------------------------------------- bounds
\* Sub-second resolution of the system clock, in ticks per second.
TicksPerSec == 2
\* Ticks the clock may advance one by one before the long wait.
MaxClock == 1
\* Lifetime of an auth-result token in seconds: Duration::from_secs(5*60).
ExpirySecs == 300
\* The long wait: one second more than the lifetime.
WaitTicks == (ExpirySecs + 1) * TicksPerSec

\* ------------------------------------------------------------ key material
Families == {"RSA", "EC"}
KeyIds == {1, 2}
Keys == Families \X KeyIds
NoKey == <<"", 0>>

\* A PEM document: its label, and for a key the family and key pair it holds.
PemLabels == {"PRIVATE KEY", "PUBLIC KEY", "CERTIFICATE"}
Pems == [label : PemLabels, fam : Families, id : {1}]
    \cup [label : {"PRIVATE KEY", "PUBLIC KEY"}, fam : Families, id : KeyIds]

\* EncryptionKeyConfig / SignKeyConfig: #[serde(tag = "type")] enum over a PEM.
Configs == [type : Families, key : Pems]

Roles == {"signer", "verifier", "encrypter", "decrypter"}

\* RS256 / ES256 and RSA_OAEP / ECDH_ES as bound by the match arms.
SignAlg(type) == IF type = "RSA" THEN "RS256" ELSE "ES256"
EncAlg(type) == IF type = "RSA" THEN "RSA-OAEP" ELSE "ECDH-ES"
RoleAlg(role, type) ==
    IF role \in {"signer", "verifier"} THEN SignAlg(type) ELSE EncAlg(type)

\* The PEM label the josekit *_from_pem constructor of a role accepts.
RoleLabel(role) ==
    IF role \in {"signer", "decrypter"} THEN "PRIVATE KEY" ELSE "PUBLIC KEY"

NoHandle == [role |-> "", alg |-> "", key |-> NoKey]

\* <alg>.<role>_from_pem(pem): the algorithm is fixed by the caller; the PEM
\* must carry the label the role needs and a key of the algorithm's family.
FromPem(role, type, pem) ==
    IF pem.label = RoleLabel(role) /\ pem.fam = type
    THEN [ok |-> TRUE, err |-> "",
          handle |-> [role |-> role, alg |-> RoleAlg(role, type),
                      key |-> <<pem.fam, pem.id>>]]
    ELSE [ok |-> FALSE, err |-> "JWT", handle |-> NoHandle]

\* A resolver that looks at the PEM to pick the family (algorithm confusion).
TryFromAutoDetect(role, cfg) == FromPem(role, cfg.key.fam, cfg.key)

\* impl TryFrom<EncryptionKeyConfig / SignKeyConfig> for Box<dyn ...>:
\* match on the tag, `?` turns the JoseError into Error::JWT.
TryFrom(role, cfg) == FromPem(role, cfg.type, cfg.key)

Handles(role) == {TryFrom(role, c).handle : c \in {c \in Configs : TryFrom(role, c).ok}}

HandleFamily(h) == h.key[1]

\* ------------------------------------------------------------ JSON values
\* serde_json::Value, flattened to one record shape: t is the JSON type, s a
\* string's text, n a number, m an object's members <<key, type, text>>, and
\* w, for a string, the compact JWS it spells (NoJws when it spells none).
NoJws == [wf |-> FALSE, typ |-> "", alg |-> "", payload |-> {},
          sigkey |-> NoKey, sigok |-> FALSE]
JNull == [t |-> "null", s |-> "", n |-> 0, m |-> {}, w |-> NoJws]
JStr(x) == [t |-> "str", s |-> x, n |-> 0, m |-> {}, w |-> NoJws]
JNum(k) == [t |-> "num", s |-> "", n |-> k, m |-> {}, w |-> NoJws]
JObj(members) == [t |-> "obj", s |-> "", n |-> 0, m |-> members, w |-> NoJws]
JCompact(jws) == [t |-> "str", s |-> "<compact>", n |-> 0, m |-> {}, w |-> jws]

\* Option<T> with a fixed filler for None, so that equal options are equal.
Some(v) == [some |-> TRUE, v |-> v]
NoneOf(filler) == [some |-> FALSE, v |-> filler]

\* JwtPayload: a claim set, as a set of <<name, value>> with unique names.
\* JwtPayload::set_claim(name, Some(value)) inserts or replaces.
set_claim(p, name, v) == {e \in p : e[1] # name} \cup {<<name, v>>}
HasClaim(p, name) == \E e \in p : e[1] = name
\* JwtPayload::claim(name): Option<&Value>.
claim(p, name) ==
    IF HasClaim(p, name)
    THEN Some((CHOOSE e \in p : e[1] = name)[2])
    ELSE NoneOf(JNull)

Ok(v) == [ok |-> TRUE, err |-> "", v |-> v]
Err(kind, filler) == [ok |-> FALSE, err |-> kind, v |-> filler]

\* ------------------------------------------------------------ domain types
AuthStatuses == {"Succes", "Failed"}
AttrMaps == {{}, {<<"A", "B">>, <<"C", "D">>}}
Urls == {"https://example.com"}
AuthResults ==
    [status : AuthStatuses,
     attributes : {NoneOf({})} \cup {Some(a) : a \in AttrMaps},
     session_url : {NoneOf("")} \cup {Some(u) : u \in Urls}]
NoAuthResult == [status |-> "", attributes |-> NoneOf({}), session_url |-> NoneOf("")]

\* serde_json::to_value(&AuthStatus): the variant name as a JSON string.
StatusToValue(st) == JStr(st)
\* serde_json::from_value::<AuthStatus>: only a known variant name parses.
StatusFromValue(v) ==
    IF v.t = "str" /\ v.s \in AuthStatuses THEN Ok(v.s) ELSE Err("Json", "")

\* serde_json::to_value(&HashMap<String, String>): an object of strings.
MapToValue(a) == JObj({<<e[1], "str", e[2]>> : e \in a})
\* serde_json::from_value::<HashMap<String, String>>: an object all of whose
\* members are strings; null, a number, a string or a mixed object fail.
MapFromValue(v) ==
    IF v.t = "obj" /\ \A e \in v.m : e[2] = "str"
    THEN Ok({<<e[1], e[3]>> : e \in v.m})
    ELSE Err("Json", {})

\* serde_json::to_value(&String) / from_value::<String>.
StringToValue(x) == JStr(x)
StringFromValue(v) == IF v.t = "str" THEN Ok(v.s) ELSE Err("Json", "")

\* ------------------------------------------------------------------ clock
\* SystemTime::now() as whole epoch seconds (set_issued_at/set_expires_at
\* store NumericDate seconds).
Secs(ticks) == ticks \div TicksPerSec
\* The clock starts on the last tick before a second boundary.
StartClock == TicksPerSec - 1


\* ------------------------------------------------------------ JOSE objects
\* Compact JWS: header {typ, alg}, payload, and a signature that names the
\* key it was made with (sigok: made over exactly this header and payload).
\* jwt::encode_with_signer(&payload, &header, signer).
encode_with_signer(payload, typ, signer) ==
    [wf |-> TRUE, typ |-> typ, alg |-> signer.alg, payload |-> payload,
     sigkey |-> signer.key, sigok |-> TRUE]

\* The five segments of a compact JWE. With ECDH-ES (direct key agreement)
\* the encrypted-key segment is empty.
Segments == {"header", "key", "iv", "ciphertext", "tag"}
NoToken == [present |-> FALSE, typ |-> "", cty |-> "", enc |-> "", alg |-> "",
            rcpt |-> NoKey, payload |-> {}, nseg |-> 0, changed |-> {}]

\* jwt::encode_with_encrypter(&payload, &header, encrypter): the content key
\* is wrapped for (RSA-OAEP) or agreed with (ECDH-ES) the encrypter's key.
encode_with_encrypter(payload, typ, cty, enc, encrypter) ==
    [present |-> TRUE, typ |-> typ, cty |-> cty, enc |-> enc,
     alg |-> encrypter.alg, rcpt |-> encrypter.key, payload |-> payload,
     nseg |-> 5, changed |-> {}]

\* Reserved claims must have their registered JSON type (JwtPayload::from_map).
ReservedOk(p) ==
    /\ \A e \in p : e[1] = "sub" => e[2].t = "str"
    /\ \A e \in p : e[1] \in {"iat", "exp"} => e[2].t = "num"

\* Key decryption: RSA-OAEP unwraps the encrypted-key segment with the private
\* key; ECDH-ES derives the key from the header's ephemeral key.
KeyUnwrapOk(jwe, decrypter) ==
    /\ jwe.rcpt = decrypter.key
    /\ jwe.alg = "RSA-OAEP" => "key" \notin jwe.changed

\* A128CBC-HS256: the tag authenticates the protected header (as AAD), the
\* IV and the ciphertext.
TagOk(jwe) == jwe.changed \cap {"header", "iv", "ciphertext", "tag"} = {}

\* A decrypter that does not authenticate the ciphertext.
decode_with_decrypter_unauthenticated(jwe, decrypter) ==
    IF jwe.nseg # 5 \/ jwe.alg # decrypter.alg \/ ~KeyUnwrapOk(jwe, decrypter)
    THEN Err("JWT", {})
    ELSE Ok(jwe.payload)

\* jwt::decode_with_decrypter(jwe, decrypter)?.0 : every failure is a
\* JoseError, which `?` turns into Error::JWT.
decode_with_decrypter(jwe, decrypter) ==
    IF jwe.nseg # 5 THEN Err("JWT", {})
    ELSE IF jwe.alg # decrypter.alg THEN Err("JWT", {})
    ELSE IF ~KeyUnwrapOk(jwe, decrypter) THEN Err("JWT", {})
    ELSE IF ~TagOk(jwe) THEN Err("JWT", {})
    ELSE IF ~ReservedOk(jwe.payload) THEN Err("JWT", {})
    ELSE Ok(jwe.payload)

\* The claim exp as a number, when the payload carries one.
ExpOf(p) == IF HasClaim(p, "exp") THEN claim(p, "exp").v.n ELSE 0
Expired(p, now) == HasClaim(p, "exp") /\ ExpOf(p) < Secs(now)

\* A decoder that parses the compact JWS without verifying it.
decode_with_verifier_unverified(s, verifier) ==
    IF ~s.w.wf \/ ~ReservedOk(s.w.payload) THEN Err("JWT", {})
    ELSE Ok(s.w.payload)

\* jwt::decode_with_verifier(jws, validator)?.0 : parses the compact JWS,
\* checks the header's alg against the verifier's and the signature against
\* its key. It validates no claim: exp is read by nobody (the code builds no
\* JwtPayloadValidator).
decode_with_verifier(s, verifier) ==
    IF ~s.w.wf THEN Err("JWT", {})
    ELSE IF s.w.alg # verifier.alg THEN Err("JWT", {})
    ELSE IF ~(s.w.sigok /\ s.w.sigkey = verifier.key) THEN Err("JWT", {})
    ELSE IF ~ReservedOk(s.w.payload) THEN Err("JWT", {})
    ELSE Ok(s.w.payload)

\* ---------------------------------------------------------------- encoders
\* An encoder that writes an absent optional field as JSON null.
AuthPayloadNulls(x, t1, t2) ==
    set_claim(set_claim(set_claim(set_claim(set_claim({<<"sub", JStr("id-contact-attributes")>>},
        "status", StatusToValue(x.status)),
        "attributes", IF x.attributes.some THEN MapToValue(x.attributes.v) ELSE JNull),
        "session_url", IF x.session_url.some THEN StringToValue(x.session_url.v) ELSE JNull),
        "iat", JNum(Secs(t1))),
        "exp", JNum(Secs(t2) + ExpirySecs))

\* An encoder that forgets the session_url claim.
AuthPayloadNoUrl(x, t1, t2) ==
    LET p0 == set_claim({}, "sub", JStr("id-contact-attributes"))
        p1 == set_claim(p0, "status", StatusToValue(x.status))
        p2 == IF x.attributes.some
              THEN set_claim(p1, "attributes", MapToValue(x.attributes.v)) ELSE p1
        p4 == set_claim(p2, "iat", JNum(Secs(t1)))
    IN  set_claim(p4, "exp", JNum(Secs(t2) + ExpirySecs))

\* sign_and_encrypt_auth_result, the inner claim set: t1 and t2 are the two
\* readings of SystemTime::now().
AuthPayload(x, t1, t2) ==
    LET p0 == set_claim({}, "sub", JStr("id-contact-attributes"))
        p1 == set_claim(p0, "status", StatusToValue(x.status))
        p2 == IF x.attributes.some
              THEN set_claim(p1, "attributes", MapToValue(x.attributes.v)) ELSE p1
        p3 == IF x.session_url.some
              THEN set_claim(p2, "session_url", StringToValue(x.session_url.v)) ELSE p2
        p4 == set_claim(p3, "iat", JNum(Secs(t1)))
    IN  set_claim(p4, "exp", JNum(Secs(t2) + ExpirySecs))

\* The outer envelope shared by both encoders: {"njwt": <compact JWS>} under
\* header typ JWT, cty JWT, enc A128CBC-HS256.
Envelope(jws, encrypter) ==
    encode_with_encrypter(set_claim({}, "njwt", JCompact(jws)),
                          "JWT", "JWT", "A128CBC-HS256", encrypter)

sign_and_encrypt_auth_result(x, signer, encrypter, t1, t2) ==
    Envelope(encode_with_signer(AuthPayload(x, t1, t2), "JWT", signer), encrypter)

\* sign_and_encrypt_attributes: sub and attributes, no iat, no exp.
AttrPayload(a) ==
    set_claim(set_claim({}, "sub", JStr("id-contact-attributes")),
              "attributes", MapToValue(a))

sign_and_encrypt_attributes(a, signer, encrypter) ==
    Envelope(encode_with_signer(AttrPayload(a), "JWT", signer), encrypter)

\* ---------------------------------------------------------------- decoders
\* A tampered copy: one byte of the compact token changed. The byte lies in
\* one of the segments, or the change removes or adds a '.' and with it a
\* segment boundary. An ECDH-ES token has no byte in its encrypted-key segment.
TamperModes == Segments \cup {"dot_removed", "dot_added"}
CanTamper(t, mode) == t.present /\ (mode = "key" => t.alg = "RSA-OAEP")
Tamper(t, mode) ==
    IF mode = "dot_removed" THEN [t EXCEPT !.nseg = 4]
    ELSE IF mode = "dot_added" THEN [t EXCEPT !.nseg = 6]
    ELSE [t EXCEPT !.changed = {mode}]

\* .claim("njwt").ok_or(InvalidStructure)?.as_str().ok_or(InvalidStructure)?
ExtractNjwt(decoded_jwe) ==
    LET c == claim(decoded_jwe, "njwt")
    IN  IF ~c.some THEN Err("InvalidStructure", JNull)
        ELSE IF c.v.t # "str" THEN Err("InvalidStructure", JNull)
        ELSE Ok(c.v)

\* A claim reader that treats a malformed optional claim as absent.
AuthClaimsLenient(decoded_jws) ==
    LET st == claim(decoded_jws, "status")
        at == claim(decoded_jws, "attributes")
        su == claim(decoded_jws, "session_url")
    IN  IF ~st.some THEN Err("InvalidStructure", NoAuthResult)
        ELSE IF ~StatusFromValue(st.v).ok THEN Err("Json", NoAuthResult)
        ELSE Ok([status |-> StatusFromValue(st.v).v,
                 attributes |-> IF at.some /\ MapFromValue(at.v).ok
                                THEN Some(MapFromValue(at.v).v) ELSE NoneOf({}),
                 session_url |-> IF su.some /\ StringFromValue(su.v).ok
                                 THEN Some(StringFromValue(su.v).v) ELSE NoneOf("")])

\* A claim reader that defaults a missing status to Failed.
AuthClaimsDefaultStatus(decoded_jws) ==
    LET st == claim(decoded_jws, "status")
        at == claim(decoded_jws, "attributes")
        su == claim(decoded_jws, "session_url")
    IN  IF st.some /\ ~StatusFromValue(st.v).ok THEN Err("Json", NoAuthResult)
        ELSE IF at.some /\ ~MapFromValue(at.v).ok THEN Err("Json", NoAuthResult)
        ELSE IF su.some /\ ~StringFromValue(su.v).ok THEN Err("Json", NoAuthResult)
        ELSE Ok([status |-> IF st.some THEN StatusFromValue(st.v).v ELSE "Failed",
                 attributes |-> IF at.some THEN Some(MapFromValue(at.v).v) ELSE NoneOf({}),
                 session_url |-> IF su.some THEN Some(StringFromValue(su.v).v)
                                 ELSE NoneOf("")])

\* decrypt_and_verify_auth_result, the domain claims: status is required
\* (missing: InvalidStructure) and parsed; attributes and session_url are read
\* when present; each `?` on from_value gives Error::Json. Checked in the
\* order status, attributes, session_url.
AuthClaims(decoded_jws) ==
    LET st == claim(decoded_jws, "status")
        at == claim(decoded_jws, "attributes")
        su == claim(decoded_jws, "session_url")
    IN  IF ~st.some THEN Err("InvalidStructure", NoAuthResult)
        ELSE IF ~StatusFromValue(st.v).ok THEN Err("Json", NoAuthResult)
        ELSE IF at.some /\ ~MapFromValue(at.v).ok THEN Err("Json", NoAuthResult)
        ELSE IF su.some /\ ~StringFromValue(su.v).ok THEN Err("Json", NoAuthResult)
        ELSE Ok([status |-> StatusFromValue(st.v).v,
                 attributes |-> IF at.some THEN Some(MapFromValue(at.v).v) ELSE NoneOf({}),
                 session_url |-> IF su.some THEN Some(StringFromValue(su.v).v)
                                 ELSE NoneOf("")])

\* decrypt_and_verify_attributes, the domain claim: attributes is required
\* (missing: InvalidStructure) and parsed (failure: Error::Json).
AttrClaims(decoded_jws) ==
    LET at == claim(decoded_jws, "attributes")
    IN  IF ~at.some THEN Err("InvalidStructure", {})
        ELSE IF ~MapFromValue(at.v).ok THEN Err("Json", {})
        ELSE Ok(MapFromValue(at.v).v)

\* decrypt_and_verify_auth_result as a function of its arguments: the four
\* fallible steps in order, the first failure returned.
decrypt_and_verify_auth_result(jwe, validator, decrypter) ==
    LET r1 == decode_with_decrypter(jwe, decrypter)
        r2 == ExtractNjwt(r1.v)
        r3 == decode_with_verifier(r2.v, validator)
        r4 == AuthClaims(r3.v)
    IN  IF ~r1.ok THEN Err(r1.err, NoAuthResult)
        ELSE IF ~r2.ok THEN Err(r2.err, NoAuthResult)
        ELSE IF ~r3.ok THEN Err(r3.err, NoAuthResult)
        ELSE r4

\* ------------------------------------------------------------------ state
\* clock     the system clock, in ticks
\* token     the compact token last issued (NoToken before the first)
\* origin    who issued it, from what input and with which handles
\* call      the decode call in progress or last finished: its arguments, the
\*           step it has reached, its locals and its return value
\* resolved  the last key-configuration conversion and its result
NoOrigin == [by |-> "none", x |-> NoAuthResult, attrs |-> {},
             signer |-> NoHandle, encrypter |-> NoHandle]
NoCall == [pc |-> "Idle", flow |-> "", jwe |-> NoToken, tampered |-> FALSE,
           validator |-> NoHandle, decrypter |-> NoHandle, started |-> 0,
           decoded_jwe |-> {}, jws |-> JNull, decoded_jws |-> {},
           claims |-> NoAuthResult, failed_at |-> "", err |-> "",
           auth |-> NoAuthResult, attrs |-> {}]
NoResolved == [role |-> "", cfg |-> [type |-> "", key |-> [label |-> "", fam |-> "", id |-> 0]],
               ok |-> FALSE, err |-> "", handle |-> NoHandle]

Finished(c) == c.pc \in {"Done", "Error"}
Quiet == call.pc = "Idle"

Init ==
    /\ clock = StartClock
    /\ token = NoToken
    /\ origin = NoOrigin
    /\ call = NoCall
    /\ resolved = NoResolved

\* Time passes: one tick, up to MaxClock ticks.
Tick ==
    /\ clock < StartClock + MaxClock
    /\ clock' = clock + 1
    /\ UNCHANGED <<token, origin, call, resolved>>

\* Time passes: more than the lifetime of a token, once.
Wait ==
    /\ clock <= StartClock + MaxClock
    /\ clock' = clock + WaitTicks
    /\ UNCHANGED <<token, origin, call, resolved>>

\* Box::<dyn ...>::try_from(config), for one role and one configuration, at
\* start-up (before any token is handled).
Resolve ==
    /\ ~token.present
    /\ \E role \in Roles, cfg \in Configs :
         LET r == TryFrom(role, cfg)
         IN  resolved' = [role |-> role, cfg |-> cfg, ok |-> r.ok, err |-> r.err,
                          handle |-> r.handle]
    /\ UNCHANGED <<clock, token, origin, call>>

\* The issuer's own key pairs; key pair 2 of a family is somebody else's.
IssuerHandles(role) == {h \in Handles(role) : h.key[2] = 1}

\* sign_and_encrypt_auth_result(&x, signer, encrypter). d is the time that
\* passes between the two SystemTime::now() readings of lines 34 and 35.
EncodeAuthResult ==
    /\ Quiet
    /\ \E x \in AuthResults, signer \in IssuerHandles("signer"),
          encrypter \in IssuerHandles("encrypter"), d \in {0, 1} :
         /\ d = 1 => clock < StartClock + MaxClock
         /\ clock' = clock + d
         /\ token' = sign_and_encrypt_auth_result(x, signer, encrypter, clock, clock + d)
         /\ origin' = [by |-> "auth", x |-> x, attrs |-> {},
                       signer |-> signer, encrypter |-> encrypter]
    /\ call' = NoCall
    /\ resolved' = NoResolved

\* sign_and_encrypt_attributes(&attributes, signer, encrypter).
EncodeAttributes ==
    /\ Quiet
    /\ \E a \in AttrMaps, signer \in IssuerHandles("signer"),
          encrypter \in IssuerHandles("encrypter") :
         /\ token' = sign_and_encrypt_attributes(a, signer, encrypter)
         /\ origin' = [by |-> "attr", x |-> NoAuthResult, attrs |-> a,
                       signer |-> signer, encrypter |-> encrypter]
    /\ call' = NoCall
    /\ resolved' = NoResolved
    /\ UNCHANGED clock

\* Claim values another producer may put into an assertion.
ForeignStatus == {JStr("Failed"), JStr("Cancelled"), JNull}
ForeignAttributes == {JNull, JObj({<<"A", "num", "1">>})}
ForeignUrl == {JNum(1)}
WithOpt(p, name, o) == IF o.some THEN set_claim(p, name, o.v) ELSE p
ForeignPayloads ==
    {WithOpt(WithOpt(WithOpt({<<"sub", JStr("id-contact-attributes")>>},
                             "status", st), "attributes", at), "session_url", su) :
        st \in {NoneOf(JNull)} \cup {Some(v) : v \in ForeignStatus},
        at \in {NoneOf(JNull)} \cup {Some(v) : v \in ForeignAttributes},
        su \in {NoneOf(JNull)} \cup {Some(v) : v \in ForeignUrl}}

\* Another producer holding a signing key and the recipient's public key
\* issues a well-formed nested token with a claim set of its own.
IssueForeign ==
    /\ Quiet
    /\ \E p \in ForeignPayloads, signer \in IssuerHandles("signer"),
          encrypter \in IssuerHandles("encrypter") :
         /\ HandleFamily(signer) = HandleFamily(encrypter)
         /\ token' = Envelope(encode_with_signer(p, "JWT", signer), encrypter)
         /\ origin' = [by |-> "foreign", x |-> NoAuthResult, attrs |-> {},
                       signer |-> signer, encrypter |-> encrypter]
    /\ call' = NoCall
    /\ resolved' = NoResolved
    /\ UNCHANGED clock

\* What an envelope that is not a nested token may carry as njwt.
ForeignEnvelopes ==
    {{}, {<<"njwt", JNull>>}, {<<"njwt", JNum(1)>>}, {<<"njwt", JStr("garbage")>>},
     {<<"njwt", JObj({})>>},
     {<<"njwt", JCompact([encode_with_signer(AttrPayload({}), "JWT",
                            [role |-> "signer", alg |-> "RS256", key |-> <<"RSA", 1>>])
                          EXCEPT !.sigok = FALSE])>>}}

\* Anyone holding the recipient's public key issues an envelope whose payload
\* is not a nested token.
IssueEnvelope ==
    /\ Quiet
    /\ \E p \in ForeignEnvelopes, encrypter \in IssuerHandles("encrypter") :
         /\ token' = encode_with_encrypter(p, "JWT", "JWT", "A128CBC-HS256", encrypter)
         /\ origin' = [by |-> "envelope", x |-> NoAuthResult, attrs |-> {},
                       signer |-> NoHandle, encrypter |-> encrypter]
    /\ call' = NoCall
    /\ resolved' = NoResolved
    /\ UNCHANGED clock

Complementary(h, issuer) == h.alg = issuer.alg /\ h.key = issuer.key

NewCall(flow, jwe, tampered, validator, decrypter) ==
    [NoCall EXCEPT !.pc = "Received", !.flow = flow, !.jwe = jwe,
                   !.tampered = tampered, !.validator = validator,
                   !.decrypter = decrypter, !.started = clock]

\* A caller hands the token as issued to one of the two decoders, with handles
\* of its choosing. The call has received its arguments and done nothing yet.
StartDecode ==
    /\ Quiet
    /\ token.present
    /\ \E flow \in {"auth", "attr"}, validator \in Handles("verifier"),
          decrypter \in Handles("decrypter") :
         /\ flow = "attr" => origin.by \in {"auth", "attr"}
         /\ call' = NewCall(flow, token, FALSE, validator, decrypter)
    /\ UNCHANGED <<clock, token, origin, resolved>>

\* A caller hands a copy with one byte changed to decrypt_and_verify_auth_result,
\* with the handles that match the issuer's.
StartDecodeTampered ==
    /\ Quiet
    /\ token.present
    /\ origin.by = "auth"
    /\ \E mode \in TamperModes, validator \in Handles("verifier"),
          decrypter \in Handles("decrypter") :
         /\ CanTamper(token, mode)
         /\ Complementary(validator, origin.signer)
         /\ decrypter.alg = origin.encrypter.alg /\ decrypter.key = origin.encrypter.key
         /\ call' = NewCall("auth", Tamper(token, mode), TRUE, validator, decrypter)
    /\ UNCHANGED <<clock, token, origin, resolved>>

Fail(c, kind) == [c EXCEPT !.pc = "Error", !.failed_at = c.pc, !.err = kind]

\* A decrypt step that swallows its failure and goes on with an empty claim set.
StepDecryptDeferred ==
    /\ call.pc = "Received"
    /\ LET r == decode_with_decrypter(call.jwe, call.decrypter)
       IN  call' = [call EXCEPT !.pc = "Decrypted", !.decoded_jwe = r.v]
    /\ UNCHANGED <<clock, token, origin, resolved>>

\* let decoded_jwe = jwt::decode_with_decrypter(jwe, decrypter)?.0;
StepDecrypt ==
    /\ call.pc = "Received"
    /\ LET r == decode_with_decrypter(call.jwe, call.decrypter)
       IN  call' = IF r.ok THEN [call EXCEPT !.pc = "Decrypted", !.decoded_jwe = r.v]
                   ELSE Fail(call, r.err)
    /\ UNCHANGED <<clock, token, origin, resolved>>

\* let jws = decoded_jwe.claim("njwt").ok_or(..)?.as_str().ok_or(..)?;
StepExtractInner ==
    /\ call.pc = "Decrypted"
    /\ LET r == ExtractNjwt(call.decoded_jwe)
       IN  call' = IF r.ok THEN [call EXCEPT !.pc = "InnerExtracted", !.jws = r.v]
                   ELSE Fail(call, r.err)
    /\ UNCHANGED <<clock, token, origin, resolved>>

\* let decoded_jws = jwt::decode_with_verifier(jws, validator)?.0;
StepVerify ==
    /\ call.pc = "InnerExtracted"
    /\ LET r == decode_with_verifier(call.jws, call.validator)
       IN  call' = IF r.ok THEN [call EXCEPT !.pc = "Verified", !.decoded_jws = r.v]
                   ELSE Fail(call, r.err)
    /\ UNCHANGED <<clock, token, origin, resolved>>

\* decrypt_and_verify_auth_result: status, attributes, session_url.
StepAuthClaims ==
    /\ call.pc = "Verified"
    /\ call.flow = "auth"
    /\ LET r == AuthClaims(call.decoded_jws)
       IN  call' = IF r.ok THEN [call EXCEPT !.pc = "ClaimsExtracted", !.claims = r.v]
                   ELSE Fail(call, r.err)
    /\ UNCHANGED <<clock, token, origin, resolved>>

\* decrypt_and_verify_auth_result: Ok(AuthResult { status, attributes, session_url })
StepAuthReturn ==
    /\ call.pc = "ClaimsExtracted"
    /\ call.flow = "auth"
    /\ call' = [call EXCEPT !.pc = "Done",
                            !.auth = [status |-> call.claims.status,
                                      attributes |-> call.claims.attributes,
                                      session_url |-> call.claims.session_url]]
    /\ UNCHANGED <<clock, token, origin, resolved>>

\* decrypt_and_verify_attributes: the attributes claim, parsed and returned.
StepAttrClaims ==
    /\ call.pc = "Verified"
    /\ call.flow = "attr"
    /\ LET r == AttrClaims(call.decoded_jws)
       IN  call' = IF r.ok THEN [call EXCEPT !.pc = "Done", !.attrs = r.v]
                   ELSE Fail(call, r.err)
    /\ UNCHANGED <<clock, token, origin, resolved>>

\* The caller takes the returned value; the call is over.
Drop ==
    /\ Finished(call)
    /\ call' = NoCall
    /\ UNCHANGED <<clock, token, origin, resolved>>

Next ==
    \/ Tick
    \/ Wait
    \/ Resolve
    \/ EncodeAuthResult
    \/ EncodeAttributes
    \/ IssueForeign
    \/ IssueEnvelope
    \/ StartDecode
    \/ StartDecodeTampered
    \/ StepDecrypt
    \/ StepExtractInner
    \/ StepVerify
    \/ StepAuthClaims
    \/ StepAuthReturn
    \/ StepAttrClaims
    \/ Drop

Spec == Init /\ [][Next]_vars

\* ------------------------------------------------------------------ claims
\* The inner assertion's claim set of the token on the wire.
InnerPayload(t) == claim(t.payload, "njwt").v.w.payload
\* A finished call of decrypt_and_verify_auth_result.
FinishedAuth == Finished(call) /\ call.flow = "auth"
\* The call's handles are the ones complementary to the issuer's.
Matching ==
    /\ Complementary(call.validator, origin.signer)
    /\ Complementary(call.decrypter, origin.encrypter)
\* The call got past decryption / past verification.
PastDecrypt == Finished(call) /\ call.failed_at # "Received"
PastVerify ==
    Finished(call) /\ call.failed_at \notin {"Received", "Decrypted", "InnerExtracted"}

\* C1 (round trip): decoding, with the complementary verifier and decrypter,
\* the token that sign_and_encrypt_auth_result made of an AuthResult x succeeds
\* and returns x, for every status, attributes and session_url present or
\* absent, and for RSA and EC handles.
C1_RoundTrip ==
    (FinishedAuth /\ origin.by = "auth" /\ ~call.tampered /\ Matching)
        => (call.pc = "Done" /\ call.auth = origin.x)

C1_Witness ==
    /\ FinishedAuth /\ origin.by = "auth" /\ ~call.tampered /\ Matching
    /\ call.pc = "Done"
    /\ HandleFamily(origin.signer) = "EC" /\ HandleFamily(origin.encrypter) = "EC"
    /\ call.auth.status = "Succes"
    /\ call.auth.attributes = Some({<<"A", "B">>, <<"C", "D">>})
    /\ call.auth.session_url = Some("https://example.com")

\* C2 (expiry enforcement): decrypt_and_verify_auth_result never returns Ok
\* for a token whose inner assertion carries an exp earlier than the time of
\* the decode call.
C2_ExpiryEnforced ==
    (FinishedAuth /\ call.pc = "Done") => ~Expired(call.decoded_jws, call.started)

\* C3 (tamper detection): a copy of an issued auth-result token with one byte
\* changed, decoded with the matching handles, ends in Error::JWT, never Ok.
C3_TamperDetected ==
    (FinishedAuth /\ origin.by = "auth" /\ call.tampered /\ Matching)
        => (call.pc = "Error" /\ call.err = "JWT" /\ call.auth = NoAuthResult)

C3_Witness ==
    /\ FinishedAuth /\ origin.by = "auth" /\ call.tampered /\ Matching
    /\ call.jwe.changed = {"ciphertext"}
    /\ call.pc = "Error"

\* C4 (family isolation): a token issued with handles of one family is never
\* decoded successfully when the decrypter or the verifier is of the other
\* family; the call returns an error, and its outcome is the one the
\* arguments alone determine.
C4_FamilyIsolation ==
    (/\ FinishedAuth /\ origin.by = "auth"
     /\ HandleFamily(origin.signer) = HandleFamily(origin.encrypter)
     /\ \/ HandleFamily(call.decrypter) # HandleFamily(origin.encrypter)
        \/ HandleFamily(call.validator) # HandleFamily(origin.signer))
        => /\ call.pc = "Error"
           /\ [ok |-> call.pc = "Done", err |-> call.err, v |-> call.auth]
                = decrypt_and_verify_auth_result(call.jwe, call.validator, call.decrypter)

C4_Witness ==
    /\ FinishedAuth /\ origin.by = "auth" /\ ~call.tampered
    /\ HandleFamily(origin.signer) = "RSA" /\ HandleFamily(origin.encrypter) = "RSA"
    /\ Complementary(call.decrypter, origin.encrypter)
    /\ HandleFamily(call.validator) = "EC"
    /\ call.pc = "Error" /\ call.failed_at = "InnerExtracted"

\* C5 (structural validation): an envelope that decrypts but whose njwt claim
\* is absent or not a string gives InvalidStructure; an assertion that
\* verifies but lacks the claim its decoder requires (status for the
\* auth-result decoder, attributes for the attribute decoder) gives
\* InvalidStructure, in particular across the two flows.
C5_StructuralValidation ==
    /\ (PastDecrypt /\ ~(claim(call.jwe.payload, "njwt").some
                          /\ claim(call.jwe.payload, "njwt").v.t = "str"))
          => (call.pc = "Error" /\ call.err = "InvalidStructure")
    /\ (PastVerify /\ call.flow = "auth" /\ ~HasClaim(InnerPayload(call.jwe), "status"))
          => (call.pc = "Error" /\ call.err = "InvalidStructure")
    /\ (PastVerify /\ call.flow = "attr" /\ ~HasClaim(InnerPayload(call.jwe), "attributes"))
          => (call.pc = "Error" /\ call.err = "InvalidStructure")
    /\ (Finished(call) /\ Matching /\ ~call.tampered /\ origin.by = "attr"
          /\ call.flow = "auth")
          => (call.pc = "Error" /\ call.err = "InvalidStructure")
    /\ (Finished(call) /\ Matching /\ ~call.tampered /\ origin.by = "auth"
          /\ ~origin.x.attributes.some /\ call.flow = "attr")
          => (call.pc = "Error" /\ call.err = "InvalidStructure")

C5_Witness ==
    /\ Finished(call) /\ Matching /\ origin.by = "attr" /\ call.flow = "auth"
    /\ call.failed_at = "Verified"
    /\ call.err = "InvalidStructure"

\* C6 (expiry offset): in every token of sign_and_encrypt_auth_result the
\* inner assertion's exp equals its iat plus exactly 300.
C6_ExpiryOffset ==
    origin.by = "auth"
        => claim(InnerPayload(token), "exp").v.n
             = claim(InnerPayload(token), "iat").v.n + ExpirySecs

\* C7 (key-configuration resolution): a conversion that succeeds yields a
\* handle of the algorithm the type tag selects for the role, and does so
\* only for a PEM that holds a key of the tagged family and of the kind the
\* role needs (private for signer and decrypter, public for verifier and
\* encrypter); every other conversion returns Error::JWT and no handle.
C7_Resolution ==
    resolved.role # "" =>
        LET tag == resolved.cfg.type
            pem == resolved.cfg.key
            fits == /\ pem.fam = tag
                    /\ pem.label = IF resolved.role \in {"signer", "decrypter"}
                                   THEN "PRIVATE KEY" ELSE "PUBLIC KEY"
            alg == CASE resolved.role \in {"signer", "verifier"} /\ tag = "RSA" -> "RS256"
                     [] resolved.role \in {"signer", "verifier"} /\ tag = "EC" -> "ES256"
                     [] resolved.role \in {"encrypter", "decrypter"} /\ tag = "RSA" -> "RSA-OAEP"
                     [] OTHER -> "ECDH-ES"
        IN  /\ resolved.ok <=> fits
            /\ resolved.ok => /\ resolved.handle.alg = alg
                              /\ resolved.handle.role = resolved.role
                              /\ HandleFamily(resolved.handle) = tag
                              /\ resolved.err = ""
            /\ ~resolved.ok => (resolved.err = "JWT" /\ resolved.handle = NoHandle)

C7_Witness ==
    /\ resolved.role = "signer"
    /\ resolved.cfg.type = "RSA"
    /\ resolved.cfg.key.label = "PUBLIC KEY" /\ resolved.cfg.key.fam = "RSA"
    /\ ~resolved.ok /\ resolved.err = "JWT"

\* C8 (decode step ordering): a call of decrypt_and_verify_auth_result moves
\* Received -> Decrypted -> InnerExtracted -> Verified -> ClaimsExtracted ->
\* Done one step at a time; a failing step moves straight to Error with that
\* step's error kind and nothing later is performed; no step is repeated; a
\* step past decryption (verification) is reached only if decryption
\* (verification) succeeded; an AuthResult is returned only from Done.
StepOrder ==
    <<"Received", "Decrypted", "InnerExtracted", "Verified", "ClaimsExtracted", "Done">>
StepIndex(pc) == CHOOSE i \in 1..Len(StepOrder) : StepOrder[i] = pc
StepErrors(pc) ==
    CASE pc = "Received" -> {"JWT"}
      [] pc = "Decrypted" -> {"InvalidStructure"}
      [] pc = "InnerExtracted" -> {"JWT"}
      [] pc = "Verified" -> {"InvalidStructure", "Json"}
      [] OTHER -> {}
C8_Move ==
    (call' # call /\ call'.flow = "auth") =>
        /\ \/ call.pc = "Idle" /\ call'.pc = "Received"
           \/ /\ call.pc \in {"Received", "Decrypted", "InnerExtracted", "Verified",
                              "ClaimsExtracted"}
              /\ call'.pc = StepOrder[StepIndex(call.pc) + 1]
              /\ call'.err = ""
           \/ /\ call.pc \in {"Received", "Decrypted", "InnerExtracted", "Verified",
                              "ClaimsExtracted"}
              /\ call'.pc = "Error"
              /\ call'.failed_at = call.pc
              /\ call'.err \in StepErrors(call.pc)
              /\ call'.decoded_jwe = call.decoded_jwe
              /\ call'.jws = call.jws
              /\ call'.decoded_jws = call.decoded_jws
              /\ call'.claims = call.claims
        /\ call'.pc \in {"Decrypted", "InnerExtracted", "Verified", "ClaimsExtracted", "Done"}
              => decode_with_decrypter(call'.jwe, call'.decrypter).ok
        /\ call'.pc \in {"Verified", "ClaimsExtracted", "Done"}
              => decode_with_verifier(call'.jws, call'.validator).ok
        /\ call'.claims # NoAuthResult => call'.pc \in {"ClaimsExtracted", "Done"}
        /\ call'.auth # NoAuthResult => call'.pc = "Done"
        /\ call'.pc = "Done" => call'.auth = call'.claims
        /\ (call'.pc = "Error" /\ ~decode_with_decrypter(call'.jwe, call'.decrypter).ok)
              => /\ call'.failed_at = "Received" /\ call'.err = "JWT"
                 /\ call'.jws = JNull /\ call'.decoded_jws = {}
\* C8: every step of every run is a move of the decode step ordering above.
C8_StepOrdering == [][C8_Move]_vars

C8_Witness ==
    /\ FinishedAuth /\ origin.by = "auth" /\ ~call.tampered
    /\ call.decrypter.key # origin.encrypter.key
    /\ call.validator.key # origin.signer.key
    /\ call.pc = "Error" /\ call.failed_at = "Received" /\ call.err = "JWT"

\* C9 (encoded claim set): the inner assertion of sign_and_encrypt_auth_result
\* has sub = "id-contact-attributes" and a status claim; an attributes claim
\* exactly when the AuthResult has attributes, a session_url claim exactly
\* when it has a session_url; no claim is null; the envelope's payload is the
\* single claim njwt holding the compact inner assertion as a string.
C9_ClaimSet ==
    origin.by = "auth" =>
        LET p == InnerPayload(token)
        IN  /\ claim(p, "sub") = Some(JStr("id-contact-attributes"))
            /\ claim(p, "status") = Some(JStr(origin.x.status))
            /\ HasClaim(p, "attributes") <=> origin.x.attributes.some
            /\ HasClaim(p, "session_url") <=> origin.x.session_url.some
            /\ \A e \in p : e[2].t # "null"
            /\ {e[1] : e \in token.payload} = {"njwt"}
            /\ Cardinality(token.payload) = 1
            /\ claim(token.payload, "njwt").v.t = "str"
            /\ claim(token.payload, "njwt").v.w.wf
            /\ claim(token.payload, "njwt").v.w.sigkey = origin.signer.key

C9_Witness ==
    /\ origin.by = "auth"
    /\ ~origin.x.attributes.some
    /\ origin.x.session_url.some
    /\ HasClaim(InnerPayload(token), "session_url")
    /\ ~HasClaim(InnerPayload(token), "attributes")

\* C10 (malformed domain claims), as stated: after decryption and verification
\* succeed, a status that is present but unrecognised, an attributes claim
\* that is present but no string-to-string map, or a session_url that is
\* present but no string makes decrypt_and_verify_auth_result fail with
\* Error::Json, never InvalidStructure, never Ok.
MalformedStatus(p) == HasClaim(p, "status") /\ ~StatusFromValue(claim(p, "status").v).ok
MalformedAttributes(p) ==
    HasClaim(p, "attributes") /\ ~MapFromValue(claim(p, "attributes").v).ok
MalformedUrl(p) ==
    HasClaim(p, "session_url") /\ ~StringFromValue(claim(p, "session_url").v).ok
Malformed(p) == MalformedStatus(p) \/ MalformedAttributes(p) \/ MalformedUrl(p)
\* C10 as stated: a verified assertion with a malformed domain claim always
\* ends in Error::Json.
C10_MalformedIsJson ==
    (PastVerify /\ call.flow = "auth" /\ Malformed(InnerPayload(call.jwe)))
        => (call.pc = "Error" /\ call.err = "Json")

\* C10, amended: such a call never returns Ok; it fails with Error::Json when
\* the status claim is present, and with InvalidStructure (for the missing
\* status, which is checked first) when the status claim is absent.
C10_MalformedFails ==
    (PastVerify /\ call.flow = "auth" /\ Malformed(InnerPayload(call.jwe)))
        => /\ call.pc = "Error"
           /\ call.auth = NoAuthResult
           /\ HasClaim(InnerPayload(call.jwe), "status") => call.err = "Json"
           /\ ~HasClaim(InnerPayload(call.jwe), "status") => call.err = "InvalidStructure"

C10_Witness ==
    /\ PastVerify /\ call.flow = "auth"
    /\ claim(InnerPayload(call.jwe), "status") = Some(JStr("Failed"))
    /\ claim(InnerPayload(call.jwe), "attributes") = Some(JNull)
    /\ ~HasClaim(InnerPayload(call.jwe), "session_url")
    /\ call.pc = "Error" /\ call.err = "Json"
====
